---- MODULE Spec2Model ----
(***************************************************************************)
(* Discover field renderers (fieldRenderers.tsx) and the stack-trace       *)
(* thread selector (ThreadSelector).                                       *)
(*                                                                         *)
(* Field names and string values are sequences of one-character strings,   *)
(* so that startsWith, split('_'), parseInt and the aggregate alias are    *)
(* computed character by character as the code computes them.              *)
(*                                                                         *)
(* A JavaScript value is a record [t, n, s, a]:                            *)
(*   t = "undefined" | "null" | "number" | "nan" | "string" | "array"      *)
(*   n = the number (t = "number"), s = the characters (t = "string"),     *)
(*   a = the elements (t = "array"), each such a record itself.            *)
(***************************************************************************)
EXTENDS Integers, Sequences, FiniteSets, TLC

VARIABLES
  pc,            \* position of the table-rendering caller
  field,         \* the column's field name
  meta,          \* [defined, map]: tableMeta (undefined, or name -> type tag)
  renderer,      \* the closure getFieldRenderer returned
  sortField,     \* what getSortField returned
  row,           \* the EventData the closure was invoked with
  output,        \* the element the closure returned
  threads,       \* ThreadSelector props.threads
  activeThread,  \* ThreadSelector props.activeThread
  hasOnChange,   \* whether props.onChange was supplied
  isOpen,        \* dropdown render prop isOpen
  selectedItem,  \* dropdown render prop selectedItem
  onChangeCalls, \* the threads props.onChange has been called with, in order
  chosen         \* the threads of the entries the user has picked, in order

vars == <<pc, field, meta, renderer, sortField, row, output,
          threads, activeThread, hasOnChange, isOpen, selectedItem,
          onChangeCalls, chosen>>

renderVars == <<pc, field, meta, renderer, sortField, row, output>>

threadVars == <<threads, activeThread, hasOnChange, isOpen, selectedItem,
                onChangeCalls, chosen>>

----------------------------------------------------------------------------
(* Bounds *)

MaxArrLen == 3

MaxRowLen == 3

MaxThreads == 3

MaxSelections == 3

----------------------------------------------------------------------------
(* Strings *)

Digits == <<"0", "1", "2", "3", "4", "5", "6", "7", "8", "9">>

IsDigit(c) == \E i \in 1..10 : Digits[i] = c

DigitValue(c) == (CHOOSE i \in 1..10 : Digits[i] = c) - 1

\* String.prototype.startsWith
StartsWith(s, prefix) ==
  /\ Len(prefix) <= Len(s)
  /\ SubSeq(s, 1, Len(prefix)) = prefix

\* s.split('_').pop(): the characters after the last '_' (all of s if none)
RECURSIVE LastUnderscorePart(_)
LastUnderscorePart(s) ==
  IF s = <<>> THEN <<>>
  ELSE IF s[Len(s)] = "_" THEN <<>>
  ELSE Append(LastUnderscorePart(SubSeq(s, 1, Len(s) - 1)), s[Len(s)])

\* the longest prefix of s made of digits
RECURSIVE LeadingDigits(_)
LeadingDigits(s) ==
  IF s = <<>> \/ ~IsDigit(s[1]) THEN <<>>
  ELSE <<s[1]>> \o LeadingDigits(Tail(s))

RECURSIVE DecimalValue(_)
DecimalValue(ds) ==
  IF ds = <<>> THEN 0
  ELSE 10 * DecimalValue(SubSeq(ds, 1, Len(ds) - 1)) + DigitValue(ds[Len(ds)])

----------------------------------------------------------------------------
(* JavaScript values *)

Undefined == [t |-> "undefined", n |-> 0, s |-> <<>>, a |-> <<>>]

Null == [t |-> "null", n |-> 0, s |-> <<>>, a |-> <<>>]

NaN == [t |-> "nan", n |-> 0, s |-> <<>>, a |-> <<>>]

Num(k) == [t |-> "number", n |-> k, s |-> <<>>, a |-> <<>>]

Str(cs) == [t |-> "string", n |-> 0, s |-> cs, a |-> <<>>]

Arr(els) == [t |-> "array", n |-> 0, s |-> <<>>, a |-> els]

\* typeof v === 'number' (NaN is a number)
TypeofNumber(v) == v.t \in {"number", "nan"}

\* Array.isArray(v)
IsArray(v) == v.t = "array"

\* ToBoolean(v), the test of `v ? .. : ..`, `!v` and `v && ..`
Truthy(v) ==
  CASE v.t = "undefined" -> FALSE
    [] v.t = "null" -> FALSE
    [] v.t = "nan" -> FALSE
    [] v.t = "number" -> v.n # 0
    [] v.t = "string" -> v.s # <<>>
    [] OTHER -> TRUE

\* Number(string): '' is 0, a string of digits its value, anything else NaN
StringToNumber(cs) ==
  IF cs = <<>> THEN Num(0)
  ELSE IF LeadingDigits(cs) = cs THEN Num(DecimalValue(cs))
  ELSE NaN

\* ToNumber(v), applied by `/` and Math.max to their operands
ToNumber(v) ==
  CASE v.t = "undefined" -> NaN
    [] v.t = "null" -> Num(0)
    [] v.t = "nan" -> NaN
    [] v.t = "number" -> v
    [] v.t = "string" -> StringToNumber(v.s)
    [] OTHER ->
         IF Len(v.a) = 0 THEN Num(0)
         ELSE IF Len(v.a) > 1 THEN NaN
         ELSE IF v.a[1].t \in {"undefined", "null"} THEN Num(0)
         ELSE IF v.a[1].t = "number" THEN v.a[1]
         ELSE IF v.a[1].t = "string" THEN StringToNumber(v.a[1].s)
         ELSE NaN

\* parseInt(cs, 10): the leading digits, NaN when there are none
ParseInt(cs) ==
  IF LeadingDigits(cs) = <<>> THEN NaN ELSE Num(DecimalValue(LeadingDigits(cs)))

\* Math.max(x, k) for a number k
MathMax(v, k) ==
  LET x == ToNumber(v)
  IN IF x.t = "nan" THEN NaN ELSE IF x.n > k THEN x ELSE Num(k)

\* Array.prototype.slice(begin) with no end
ArraySlice(els, begin) ==
  LET from == IF begin < 0
              THEN (IF Len(els) + begin < 0 THEN 0 ELSE Len(els) + begin)
              ELSE (IF begin > Len(els) THEN Len(els) ELSE begin)
  IN SubSeq(els, from + 1, Len(els))

\* data[key] on a row: the value of the entry named key, undefined if none
RowGet(data, key) ==
  IF \E i \in 1..Len(data) : data[i].name = key
  THEN data[CHOOSE i \in 1..Len(data) : data[i].name = key].value
  ELSE Undefined

\* what React puts on screen for a child: an array is flattened, undefined and
\* null render nothing, a string or a number renders as a text node
RECURSIVE ReactNodesOfSeq(_)
ReactNodesOfSeq(els) ==
  IF els = <<>> THEN <<>>
  ELSE (IF els[1].t \in {"undefined", "null"} THEN <<>> ELSE <<els[1]>>)
       \o ReactNodesOfSeq(Tail(els))

ReactNodes(v) ==
  IF v.t = "array" THEN ReactNodesOfSeq(v.a)
  ELSE IF v.t \in {"undefined", "null"} THEN <<>>
  ELSE <<v>>

----------------------------------------------------------------------------
(* Field names and string literals, as characters *)

F_id == <<"i", "d">>

F_issue_id == <<"i", "s", "s", "u", "e", ".", "i", "d">>

F_issue == <<"i", "s", "s", "u", "e">>

F_project == <<"p", "r", "o", "j", "e", "c", "t">>

F_user == <<"u", "s", "e", "r">>

F_release == <<"r", "e", "l", "e", "a", "s", "e">>

F_user_id == <<"u", "s", "e", "r", ".", "i", "d">>

F_title == <<"t", "i", "t", "l", "e">>

F_user_email == <<"u", "s", "e", "r", ".", "e", "m", "a", "i", "l">>

F_count == <<"c", "o", "u", "n", "t">>

F_count_call == <<"c", "o", "u", "n", "t", "(", ")">>

F_count_unique == <<"c", "o", "u", "n", "t", "_", "u", "n", "i", "q", "u", "e">>

F_count_unique_call == <<"c", "o", "u", "n", "t", "_", "u", "n", "i", "q", "u", "e", "(", "u", "s", "e", "r", ")">>

F_count_unique_user == <<"c", "o", "u", "n", "t", "_", "u", "n", "i", "q", "u", "e", "_", "u", "s", "e", "r">>

F_p95 == <<"p", "9", "5">>

F_user_misery == <<"u", "s", "e", "r", "_", "m", "i", "s", "e", "r", "y">>

F_user_misery_call == <<"u", "s", "e", "r", "_", "m", "i", "s", "e", "r", "y", "(", "3", "0", "0", ")">>

F_user_misery_300 == <<"u", "s", "e", "r", "_", "m", "i", "s", "e", "r", "y", "_", "3", "0", "0">>

F_user_misery_100 == <<"u", "s", "e", "r", "_", "m", "i", "s", "e", "r", "y", "_", "1", "0", "0">>

S_yes == <<"y", "e", "s">>

S_no == <<"n", "o">>

S_abc == <<"a", "b", "c">>

S_a == <<"a">>

S_b == <<"b">>

S_c == <<"c">>

----------------------------------------------------------------------------
(* Registries.  A JavaScript object literal is a sequence of entries in      *)
(* insertion order, the order `for (const k in obj)` visits them.            *)

\* the seven keys of FIELD_FORMATTERS with their isSortable flags
FIELD_FORMATTERS ==
  << [type |-> "boolean", isSortable |-> TRUE],
     [type |-> "date", isSortable |-> TRUE],
     [type |-> "duration", isSortable |-> TRUE],
     [type |-> "integer", isSortable |-> TRUE],
     [type |-> "number", isSortable |-> TRUE],
     [type |-> "percentage", isSortable |-> TRUE],
     [type |-> "string", isSortable |-> TRUE] >>

\* SPECIAL_FIELDS: each key with its sortField (a string or null)
SPECIAL_FIELDS ==
  << [key |-> F_id, sortField |-> Str(F_id)],
     [key |-> F_issue_id, sortField |-> Str(F_issue_id)],
     [key |-> F_issue, sortField |-> Null],
     [key |-> F_project, sortField |-> Str(F_project)],
     [key |-> F_user, sortField |-> Str(F_user_id)],
     [key |-> F_release, sortField |-> Str(F_release)] >>

\* the keys of SPECIAL_FUNCTIONS
SPECIAL_FUNCTIONS == << F_user_misery >>

\* AGGREGATIONS of app/utils/discover/fields: alias and isSortable, in order
AGGREGATIONS ==
  << [alias |-> F_count, isSortable |-> TRUE],
     [alias |-> F_count_unique, isSortable |-> TRUE],
     [alias |-> F_p95, isSortable |-> TRUE],
     [alias |-> F_user_misery, isSortable |-> FALSE] >>

\* FIELD_FORMATTERS.hasOwnProperty(fieldType)
IsFormatterType(fieldType) ==
  \E i \in 1..Len(FIELD_FORMATTERS) : FIELD_FORMATTERS[i].type = fieldType

\* FIELD_FORMATTERS[fieldType]
FormatterOf(fieldType) ==
  FIELD_FORMATTERS[CHOOSE i \in 1..Len(FIELD_FORMATTERS) :
                     FIELD_FORMATTERS[i].type = fieldType]

\* SPECIAL_FIELDS.hasOwnProperty(f)
IsSpecialField(f) ==
  \E i \in 1..Len(SPECIAL_FIELDS) : SPECIAL_FIELDS[i].key = f

\* SPECIAL_FIELDS[f]
SpecialFieldOf(f) ==
  SPECIAL_FIELDS[CHOOSE i \in 1..Len(SPECIAL_FIELDS) : SPECIAL_FIELDS[i].key = f]

\* for (const alias in SPECIAL_FUNCTIONS) if (name.startsWith(alias)) return ..:
\* the index of the first key that is a prefix of name, 0 if there is none
RECURSIVE FirstSpecialFunction(_, _)
FirstSpecialFunction(name, i) ==
  IF i > Len(SPECIAL_FUNCTIONS) THEN 0
  ELSE IF StartsWith(name, SPECIAL_FUNCTIONS[i]) THEN i
  ELSE FirstSpecialFunction(name, i + 1)

\* for (const alias in AGGREGATIONS) if (field.startsWith(alias)) return ..
RECURSIVE FirstAggregation(_, _)
FirstAggregation(name, i) ==
  IF i > Len(AGGREGATIONS) THEN 0
  ELSE IF StartsWith(name, AGGREGATIONS[i].alias) THEN i
  ELSE FirstAggregation(name, i + 1)

----------------------------------------------------------------------------
(* getAggregateAlias of app/utils/discover/fields: `fn(a,b)` becomes        *)
(* `fn_a_b`, with '.' and ',' turned into '_' and trailing '_' removed; a    *)
(* name that is not a call is returned as it is.  Names hold no whitespace.  *)

RECURSIVE IndexOfFrom(_, _, _)
IndexOfFrom(s, c, i) ==
  IF i > Len(s) THEN 0
  ELSE IF s[i] = c THEN i
  ELSE IndexOfFrom(s, c, i + 1)

IndexOf(s, c) == IndexOfFrom(s, c, 1)

ReplaceSeparators(s) ==
  [i \in 1..Len(s) |-> IF s[i] \in {".", ","} THEN "_" ELSE s[i]]

RECURSIVE StripTrailingUnderscores(_)
StripTrailingUnderscores(s) ==
  IF s # <<>> /\ s[Len(s)] = "_"
  THEN StripTrailingUnderscores(SubSeq(s, 1, Len(s) - 1))
  ELSE s

getAggregateAlias(f) ==
  LET open == IndexOf(f, "(")
  IN IF open < 2 \/ f[Len(f)] # ")" THEN f
     ELSE LET fn == SubSeq(f, 1, open - 1)
              inner == SubSeq(f, open + 1, Len(f) - 1)
              comma == IndexOf(inner, ",")
              arg1 == IF comma = 0 THEN inner ELSE SubSeq(inner, 1, comma - 1)
              arg2 == IF comma = 0 THEN <<>>
                      ELSE SubSeq(inner, comma + 1, Len(inner))
          IN StripTrailingUnderscores(
               ReplaceSeparators(fn \o <<"_">> \o arg1 \o <<"_">> \o arg2))

----------------------------------------------------------------------------
(* Meta lookup *)

NoMeta == [defined |-> FALSE, map |-> <<>>]

\* tableMeta[name]: the declared type tag, "undefined" when name is no key
MetaGet(m, name) ==
  IF name \in DOMAIN m.map THEN m.map[name] ELSE "undefined"

----------------------------------------------------------------------------
(* The resolvers *)

NoRenderer == [kind |-> "none", key |-> <<>>, type |-> "", bound |-> <<>>]

\* SPECIAL_FIELDS[field].renderFunc
SpecialFieldRenderer(f) ==
  [kind |-> "SPECIAL_FIELDS", key |-> f, type |-> "", bound |-> <<>>]

\* SPECIAL_FUNCTIONS[alias]
SpecialFunctionRenderer(alias) ==
  [kind |-> "SPECIAL_FUNCTIONS", key |-> alias, type |-> "", bound |-> <<>>]

\* partial(FIELD_FORMATTERS[type].renderFunc, fieldName)
FormatterRenderer(type, fieldName) ==
  [kind |-> "FIELD_FORMATTERS", key |-> <<>>, type |-> type, bound |-> fieldName]

\* getSortField with the `!tableMeta` test moved in front of the special fields
getSortField_MetaFirst(f, tableMeta) ==
  IF ~tableMeta.defined THEN Str(f)
  ELSE IF IsSpecialField(f) THEN SpecialFieldOf(f).sortField
  ELSE IF FirstAggregation(f, 1) # 0
       THEN (IF AGGREGATIONS[FirstAggregation(f, 1)].isSortable
             THEN Str(f) ELSE Null)
  ELSE IF IsFormatterType(MetaGet(tableMeta, f))
       THEN (IF FormatterOf(MetaGet(tableMeta, f)).isSortable THEN Str(f) ELSE Null)
  ELSE Null

\* getSortField with the meta-declared type looked up before the aggregations
getSortField_TypeFirst(f, tableMeta) ==
  IF IsSpecialField(f) THEN SpecialFieldOf(f).sortField
  ELSE IF ~tableMeta.defined THEN Str(f)
  ELSE IF IsFormatterType(MetaGet(tableMeta, f))
       THEN (IF FormatterOf(MetaGet(tableMeta, f)).isSortable THEN Str(f) ELSE Null)
  ELSE IF FirstAggregation(f, 1) # 0
       THEN (IF AGGREGATIONS[FirstAggregation(f, 1)].isSortable
             THEN Str(f) ELSE Null)
  ELSE Null

\* getSortField ending in `return field` instead of `return null`
getSortField_DefaultSortable(f, tableMeta) ==
  IF IsSpecialField(f) THEN SpecialFieldOf(f).sortField
  ELSE IF ~tableMeta.defined THEN Str(f)
  ELSE IF FirstAggregation(f, 1) # 0
       THEN (IF AGGREGATIONS[FirstAggregation(f, 1)].isSortable
             THEN Str(f) ELSE Null)
  ELSE IF IsFormatterType(MetaGet(tableMeta, f))
       THEN (IF FormatterOf(MetaGet(tableMeta, f)).isSortable THEN Str(f) ELSE Null)
  ELSE Str(f)

getSortField(f, tableMeta) ==
  IF IsSpecialField(f) THEN SpecialFieldOf(f).sortField
  ELSE IF ~tableMeta.defined THEN Str(f)
  ELSE IF FirstAggregation(f, 1) # 0
       THEN (IF AGGREGATIONS[FirstAggregation(f, 1)].isSortable
             THEN Str(f) ELSE Null)
  ELSE LET fieldType == MetaGet(tableMeta, f)
       IN IF IsFormatterType(fieldType)
          THEN (IF FormatterOf(fieldType).isSortable THEN Str(f) ELSE Null)
          ELSE Null

\* getFieldRenderer with the type formatters tried before the special functions
getFieldRenderer_TypeFirst(f, m) ==
  IF IsSpecialField(f) THEN SpecialFieldRenderer(f)
  ELSE IF IsFormatterType(MetaGet(m, getAggregateAlias(f)))
  THEN FormatterRenderer(MetaGet(m, getAggregateAlias(f)), getAggregateAlias(f))
  ELSE IF FirstSpecialFunction(getAggregateAlias(f), 1) # 0
  THEN SpecialFunctionRenderer(
         SPECIAL_FUNCTIONS[FirstSpecialFunction(getAggregateAlias(f), 1)])
  ELSE FormatterRenderer("string", getAggregateAlias(f))

getFieldRenderer(f, m) ==
  IF IsSpecialField(f) THEN SpecialFieldRenderer(f)
  ELSE LET fieldName == getAggregateAlias(f)
           fieldType == MetaGet(m, fieldName)
       IN IF FirstSpecialFunction(fieldName, 1) # 0
          THEN SpecialFunctionRenderer(
                 SPECIAL_FUNCTIONS[FirstSpecialFunction(fieldName, 1)])
          ELSE IF IsFormatterType(fieldType)
          THEN FormatterRenderer(fieldType, fieldName)
          ELSE FormatterRenderer("string", fieldName)

----------------------------------------------------------------------------
(* Rendered elements.  An element is its container, the component or call   *)
(* inside it (el), that component's value and numeric argument, and, for    *)
(* the score bar, the values substituted into the tooltip.  Components and  *)
(* formatting helpers imported from elsewhere (Duration, Count, formatFloat,*)
(* formatPercentage, the badges) are left applied to their arguments.       *)

NoTooltip ==
  [affectedUsers |-> Undefined, totalUsers |-> Undefined,
   percentageOf |-> Undefined, percentageOver |-> Undefined,
   duration |-> Undefined]

Element(container, el, value, arg) ==
  [container |-> container, el |-> el, value |-> value, arg |-> arg,
   tooltip |-> NoTooltip]

NoOutput == Element("", "none", Undefined, 0)

\* const emptyValue = <span>{t('n/a')}</span>
EmptyValueIn(container) == Element(container, "emptyValue", Undefined, 0)

\* x * y on numbers
Times(x, y) ==
  IF x.t = "nan" \/ y.t = "nan" THEN NaN ELSE Num(x.n * y.n)

\* Math.floor((x / d) * k) for d >= 1
FloorOfScaledQuotient(x, d, k) ==
  IF x.t = "nan" \/ d.t = "nan" THEN NaN ELSE Num((x.n * k) \div d.n)

RECURSIVE NatToChars(_)
NatToChars(k) ==
  IF k < 10 THEN <<Digits[k + 1]>>
  ELSE Append(NatToChars(k \div 10), Digits[(k % 10) + 1])

\* String(v) for a scalar, as a template literal `${v}` computes it
ScalarToChars(v) ==
  CASE v.t = "undefined" -> <<"u", "n", "d", "e", "f", "i", "n", "e", "d">>
    [] v.t = "null" -> <<"n", "u", "l", "l">>
    [] v.t = "nan" -> <<"N", "a", "N">>
    [] v.t = "number" -> NatToChars(v.n)
    [] OTHER -> v.s

\* Array.prototype.join(','): undefined and null elements give ''
RECURSIVE JoinChars(_)
JoinChars(els) ==
  IF els = <<>> THEN <<>>
  ELSE (IF els[1].t \in {"undefined", "null"} THEN <<>> ELSE ScalarToChars(els[1]))
       \o (IF Len(els) > 1 THEN <<",">> ELSE <<>>)
       \o JoinChars(Tail(els))

ToChars(v) == IF v.t = "array" THEN JoinChars(v.a) ELSE ScalarToChars(v)

paletteSize == 10

DurationDivisor == 1000

FloatPlaces == 4

MiseryDurationFactor == 4

----------------------------------------------------------------------------
(* FIELD_FORMATTERS[type].renderFunc(field, data) *)

RenderBoolean(f, data) ==
  Element("Container", "text",
          IF Truthy(RowGet(data, f)) THEN Str(S_yes) ELSE Str(S_no), 0)

RenderDate(f, data) ==
  IF Truthy(RowGet(data, f))
  THEN Element("Container", "StyledDateTime", RowGet(data, f), 0)
  ELSE EmptyValueIn("Container")

\* <Duration seconds={data[field] / 1000} fixedDigits={2} abbreviation />
RenderDuration(f, data) ==
  IF TypeofNumber(RowGet(data, f))
  THEN Element("NumberContainer", "Duration", RowGet(data, f), DurationDivisor)
  ELSE EmptyValueIn("NumberContainer")

\* the integer formatter testing `data[field]` for truth instead of its type
RenderInteger_Truthy(f, data) ==
  IF Truthy(RowGet(data, f))
  THEN Element("NumberContainer", "Count", RowGet(data, f), 0)
  ELSE EmptyValueIn("NumberContainer")

RenderInteger(f, data) ==
  IF TypeofNumber(RowGet(data, f))
  THEN Element("NumberContainer", "Count", RowGet(data, f), 0)
  ELSE EmptyValueIn("NumberContainer")

RenderNumber(f, data) ==
  IF TypeofNumber(RowGet(data, f))
  THEN Element("NumberContainer", "formatFloat", RowGet(data, f), FloatPlaces)
  ELSE EmptyValueIn("NumberContainer")

RenderPercentage(f, data) ==
  IF TypeofNumber(RowGet(data, f))
  THEN Element("NumberContainer", "formatPercentage", RowGet(data, f), 0)
  ELSE EmptyValueIn("NumberContainer")

\* the string formatter keeping the head of the array, slice(0, 1)
RenderString_Head(f, data) ==
  Element("Container", "children",
          IF IsArray(RowGet(data, f))
          THEN Arr(IF RowGet(data, f).a = <<>> THEN <<>>
                   ELSE <<RowGet(data, f).a[1]>>)
          ELSE RowGet(data, f), 0)

\* Some fields have long arrays in them, only show the tail of the data.
RenderString(f, data) ==
  LET value == IF IsArray(RowGet(data, f))
               THEN Arr(ArraySlice(RowGet(data, f).a, -1))
               ELSE RowGet(data, f)
  IN Element("Container", "children", value, 0)

RenderFormatter(type, f, data) ==
  CASE type = "boolean" -> RenderBoolean(f, data)
    [] type = "date" -> RenderDate(f, data)
    [] type = "duration" -> RenderDuration(f, data)
    [] type = "integer" -> RenderInteger(f, data)
    [] type = "number" -> RenderNumber(f, data)
    [] type = "percentage" -> RenderPercentage(f, data)
    [] OTHER -> RenderString(f, data)

----------------------------------------------------------------------------
(* SPECIAL_FUNCTIONS.user_misery(data) *)

\* for (const field in data) if (field.startsWith('user_misery'))
\*   userMiseryField = field;
\* the loop from entry i on, with the value userMiseryField has so far
RECURSIVE ScanUserMiseryField(_, _, _)
ScanUserMiseryField(data, i, userMiseryField) ==
  IF i > Len(data) THEN userMiseryField
  ELSE ScanUserMiseryField(
         data, i + 1,
         IF StartsWith(data[i].name, F_user_misery)
         THEN data[i].name ELSE userMiseryField)

\* the scan matching `field === 'user_misery'` instead of a prefix
UserMiseryFieldOf_Exact(data) ==
  IF \E i \in 1..Len(data) : data[i].name = F_user_misery
  THEN F_user_misery ELSE <<>>

UserMiseryFieldOf(data) == ScanUserMiseryField(data, 1, <<>>)

\* Math.floor(userMisery / Math.max(uniqueUsers, 1)) * palette.length
MiseryScore_FloorFirst(userMisery, uniqueUsers) ==
  Times(FloorOfScaledQuotient(ToNumber(userMisery), MathMax(uniqueUsers, 1), 1),
        Num(paletteSize))

\* Math.floor((userMisery / Math.max(uniqueUsers, 1)) * palette.length)
MiseryScore(userMisery, uniqueUsers) ==
  FloorOfScaledQuotient(ToNumber(userMisery), MathMax(uniqueUsers, 1), paletteSize)

\* !uniqueUsers && uniqueUsers !== 0
UniqueUsersAbsent(uniqueUsers) == ~Truthy(uniqueUsers) /\ uniqueUsers # Num(0)

RenderUserMisery(data) ==
  LET uniqueUsers == RowGet(data, F_count_unique_user)
      userMiseryField == UserMiseryFieldOf(data)
      userMisery == RowGet(data, userMiseryField)
      divisor == MathMax(uniqueUsers, 1)
      score == MiseryScore(userMisery, uniqueUsers)
      miseryLimit == ParseInt(LastUnderscorePart(userMiseryField))
  IN IF userMiseryField = <<>> THEN EmptyValueIn("NumberContainer")
     ELSE IF UniqueUsersAbsent(uniqueUsers)
     THEN (IF TypeofNumber(userMisery)
           THEN Element("NumberContainer", "formatFloat", userMisery, FloatPlaces)
           ELSE EmptyValueIn("NumberContainer"))
     ELSE [container |-> "BarContainer", el |-> "ScoreBar", value |-> score,
           arg |-> paletteSize,
           tooltip |->
             [affectedUsers |-> userMisery, totalUsers |-> uniqueUsers,
              percentageOf |-> Times(Num(100), ToNumber(userMisery)),
              percentageOver |-> divisor,
              duration |-> Times(Num(MiseryDurationFactor), miseryLimit)]]

----------------------------------------------------------------------------
(* SPECIAL_FIELDS[key].renderFunc(data).  The organization of the baggage   *)
(* is one fixed organization; found says whether the Projects lookup holds  *)
(* a project with the row's slug.                                           *)

RenderSpecialField(key, data, found) ==
  CASE key = F_id ->
         IF RowGet(data, F_id).t # "string" THEN Element("", "null", Null, 0)
         ELSE Element("Container", "EventId", RowGet(data, F_id), 0)
    [] key = F_issue_id ->
         Element("Container", "OverflowLink", RowGet(data, F_issue_id), 0)
    [] key = F_issue ->
         IF ~Truthy(RowGet(data, F_issue_id))
         THEN Element("Container", "StyledShortId",
                      Str(ToChars(RowGet(data, F_issue))), 0)
         ELSE Element("Container", "OverflowLink>StyledShortId",
                      Str(ToChars(RowGet(data, F_issue))), 0)
    [] key = F_project ->
         Element("Container", "ProjectBadge", RowGet(data, F_project),
                 IF found THEN 1 ELSE 0)
    [] key = F_user ->
         IF Truthy(RowGet(data, F_user))
         THEN Element("Container", "UserBadge", RowGet(data, F_user), 0)
         ELSE EmptyValueIn("EmptyValueContainer")
    [] OTHER ->
         IF Truthy(RowGet(data, F_release))
         THEN Element("VersionContainer", "Version", RowGet(data, F_release), 0)
         ELSE Element("", "value", RowGet(data, F_release), 0)

\* invoking the closure getFieldRenderer returned
Invoke(rend, data, found) ==
  CASE rend.kind = "SPECIAL_FIELDS" -> RenderSpecialField(rend.key, data, found)
    [] rend.kind = "SPECIAL_FUNCTIONS" -> RenderUserMisery(data)
    [] OTHER -> RenderFormatter(rend.type, rend.bound, data)

----------------------------------------------------------------------------
(* Inputs of the table-rendering caller *)

\* type tags a meta can declare: the seven formatter types and one other
DeclaredTypes ==
  {"boolean", "date", "duration", "integer", "number", "percentage", "string",
   "array"}

Fields ==
  {F_id, F_issue_id, F_issue, F_project, F_user, F_release,
   F_title, F_user_email, F_count_call, F_count_unique_call,
   F_count_unique_user, F_user_misery_call, F_user_misery_300}

\* the metas that differ on the keys the resolvers read for field f
MetasFor(f) ==
  {[defined |-> TRUE, map |-> m] :
     m \in UNION {[K -> DeclaredTypes] : K \in SUBSET {f, getAggregateAlias(f)}}}

ArrayElements == {Str(S_a), Str(S_b), Str(S_c)}

Arrays == {Arr(els) : els \in UNION {[1..n -> ArrayElements] : n \in 0..MaxArrLen}}

AllValues ==
  {Undefined, Null, NaN, Num(0), Num(1250), Str(<<>>), Str(S_abc)} \cup Arrays

KeysFor(rend) ==
  CASE rend.kind = "FIELD_FORMATTERS" -> {rend.bound, F_count_unique_user}
    [] rend.kind = "SPECIAL_FUNCTIONS" ->
         {F_count_unique_user, F_user_misery_300, F_user_misery_100, F_user_misery}
    [] OTHER -> IF rend.key = F_issue THEN {F_issue, F_issue_id} ELSE {rend.key}

ValuesFor(rend, k) ==
  CASE rend.kind = "FIELD_FORMATTERS" ->
         IF k = rend.bound THEN AllValues ELSE {Num(100)}
    [] rend.kind = "SPECIAL_FUNCTIONS" ->
         IF k = F_count_unique_user THEN {Null, Num(0), Num(100), Str(<<>>)}
         ELSE IF k = F_user_misery_300
              THEN {Null, Num(10), Num(250), Str(S_abc)}
         ELSE IF k = F_user_misery_100 THEN {Null, Num(5)}
         ELSE {Num(1)}
    [] OTHER -> {Undefined, Num(0), Num(7), Str(<<>>), Str(S_abc)}

\* rows of at most n entries with distinct names among keys, in every order
RECURSIVE RowsOver(_, _, _)
RowsOver(rend, keys, n) ==
  IF n = 0 THEN {<<>>}
  ELSE {<<>>} \cup
       UNION {{<<[name |-> k, value |-> v]>> \o r :
                 v \in ValuesFor(rend, k), r \in RowsOver(rend, keys \ {k}, n - 1)} :
              k \in keys}

RowsFor(rend) == RowsOver(rend, KeysFor(rend), MaxRowLen)

----------------------------------------------------------------------------
(* ThreadSelector *)

NoThread == [id |-> 0, crashed |-> FALSE]

\* filterThreadInfo(thread, event): the label and filename of that thread
filterThreadInfo(thread) == [of |-> thread.id]

NoItem == [set |-> FALSE, thread |-> NoThread, threadInfo |-> filterThreadInfo(NoThread)]

\* getDropDownItem(thread)
getDropDownItem(thread) ==
  [set |-> TRUE, thread |-> thread, threadInfo |-> filterThreadInfo(thread)]

\* items={threads.map(getDropDownItem)}
Items == [i \in 1..Len(threads) |-> getDropDownItem(threads[i])]

\* handleOnChange({thread}): the calls props.onChange has received afterwards
handleOnChange(item, calls) ==
  IF hasOnChange THEN Append(calls, item.thread) ELSE calls

\* the button showing the active thread whatever has been selected
SelectedOption_ActiveOnly(item, active) ==
  [id |-> active.id, details |-> filterThreadInfo(active)]

\* the SelectedOption the render prop shows on the dropdown button
SelectedOption(item, active) ==
  IF item.set
  THEN [id |-> item.thread.id, details |-> item.threadInfo]
  ELSE [id |-> active.id, details |-> filterThreadInfo(active)]

----------------------------------------------------------------------------
(* The table-rendering caller *)

ThreadsUnmounted ==
  /\ threads = <<>>
  /\ activeThread = NoThread
  /\ hasOnChange = FALSE
  /\ isOpen = FALSE
  /\ selectedItem = NoItem
  /\ onChangeCalls = <<>>
  /\ chosen = <<>>

Init ==
  /\ pc = "start"
  /\ field \in Fields
  /\ meta \in MetasFor(field) \cup {NoMeta}
  /\ renderer = NoRenderer
  /\ sortField = Undefined
  /\ row = <<>>
  /\ output = NoOutput
  /\ ThreadsUnmounted

GetSortField ==
  /\ pc = "start"
  /\ sortField' = getSortField(field, meta)
  /\ pc' = "sorted"
  /\ UNCHANGED <<field, meta, renderer, row, output>>
  /\ UNCHANGED threadVars

\* meta is a MetaType: the signature admits no undefined meta
GetFieldRenderer ==
  /\ pc = "start"
  /\ meta.defined
  /\ renderer' = getFieldRenderer(field, meta)
  /\ pc' = "resolved"
  /\ UNCHANGED <<field, meta, sortField, row, output>>
  /\ UNCHANGED threadVars

Render ==
  /\ pc = "resolved"
  /\ \E data \in RowsFor(renderer) :
       \E found \in (IF renderer.key = F_project THEN BOOLEAN ELSE {FALSE}) :
         /\ row' = data
         /\ output' = Invoke(renderer, data, found)
  /\ pc' = "rendered"
  /\ UNCHANGED <<field, meta, renderer, sortField>>
  /\ UNCHANGED threadVars

Next == GetSortField \/ GetFieldRenderer \/ Render

Spec == Init /\ [][Next]_vars

----------------------------------------------------------------------------
(* The stack-trace view holding a ThreadSelector *)

Threads(n) == [i \in 1..n |-> [id |-> i, crashed |-> (i = 1)]]

ThreadInit ==
  /\ pc = "idle"
  /\ field = <<>>
  /\ meta = NoMeta
  /\ renderer = NoRenderer
  /\ sortField = Undefined
  /\ row = <<>>
  /\ output = NoOutput
  /\ \E n \in 1..MaxThreads :
       /\ threads = Threads(n)
       /\ activeThread \in {threads[i] : i \in 1..n}
  /\ hasOnChange \in BOOLEAN
  /\ isOpen = FALSE
  /\ selectedItem = NoItem
  /\ onChangeCalls = <<>>
  /\ chosen = <<>>

\* the dropdown button is clicked while the menu is closed
OpenMenu ==
  /\ ~isOpen
  /\ isOpen' = TRUE
  /\ UNCHANGED <<threads, activeThread, hasOnChange, selectedItem,
                 onChangeCalls, chosen>>
  /\ UNCHANGED renderVars

\* the menu is dismissed without a selection
CloseMenu ==
  /\ isOpen
  /\ isOpen' = FALSE
  /\ UNCHANGED <<threads, activeThread, hasOnChange, selectedItem,
                 onChangeCalls, chosen>>
  /\ UNCHANGED renderVars

\* an entry of the open menu is picked: onSelect, then closeOnSelect
SelectItem ==
  /\ isOpen
  /\ Len(chosen) < MaxSelections
  /\ \E i \in 1..Len(Items) :
       /\ onChangeCalls' = handleOnChange(Items[i], onChangeCalls)
       /\ selectedItem' = Items[i]
       /\ chosen' = Append(chosen, Items[i].thread)
  /\ isOpen' = FALSE
  /\ UNCHANGED <<threads, activeThread, hasOnChange>>
  /\ UNCHANGED renderVars

\* the owner renders the selector again with another active thread
ReceiveActiveThread ==
  /\ \E i \in 1..Len(threads) :
       /\ threads[i] # activeThread
       /\ activeThread' = threads[i]
  /\ UNCHANGED <<threads, hasOnChange, isOpen, selectedItem, onChangeCalls, chosen>>
  /\ UNCHANGED renderVars

ThreadNext == OpenMenu \/ CloseMenu \/ SelectItem \/ ReceiveActiveThread

ThreadSpec == ThreadInit /\ [][ThreadNext]_vars

----------------------------------------------------------------------------
(* Properties *)

SevenFormatterTypes ==
  {"boolean", "date", "duration", "integer", "number", "percentage", "string"}

SpecialFieldKeys == {F_id, F_issue_id, F_issue, F_project, F_user, F_release}

\* field starts with the alias of some known aggregate function
AggregatePrefixed(f) ==
  \E i \in 1..Len(AGGREGATIONS) : StartsWith(f, AGGREGATIONS[i].alias)

\* the aggregate whose alias field starts with is marked sortable
AggregateSortable(f) ==
  LET first == CHOOSE i \in 1..Len(AGGREGATIONS) :
                 /\ StartsWith(f, AGGREGATIONS[i].alias)
                 /\ \A j \in 1..(i - 1) : ~StartsWith(f, AGGREGATIONS[j].alias)
  IN AGGREGATIONS[first].isSortable

\* the entries of the row whose name starts with 'user_misery'
MiseryEntries(data) ==
  {i \in 1..Len(data) : StartsWith(data[i].name, F_user_misery)}

\* C1: getFieldRenderer picks, in this order, the special field whose key is
\* exactly the field; else the special function whose key is a prefix of the
\* aggregate alias of the field; else the formatter of the type the meta
\* declares for the alias, bound to the alias; else the string formatter bound
\* to the alias.  A lower rule is never taken when a higher one applies.
C1_RendererPriority ==
  pc \in {"resolved", "rendered"} =>
    LET alias == getAggregateAlias(field)
        declared == MetaGet(meta, alias)
    IN IF field \in SpecialFieldKeys
       THEN renderer.kind = "SPECIAL_FIELDS" /\ renderer.key = field
       ELSE IF \E i \in 1..Len(SPECIAL_FUNCTIONS) :
                 StartsWith(alias, SPECIAL_FUNCTIONS[i])
       THEN /\ renderer.kind = "SPECIAL_FUNCTIONS"
            /\ StartsWith(alias, renderer.key)
       ELSE IF declared \in SevenFormatterTypes
       THEN /\ renderer.kind = "FIELD_FORMATTERS"
            /\ renderer.type = declared
            /\ renderer.bound = alias
       ELSE /\ renderer.kind = "FIELD_FORMATTERS"
            /\ renderer.type = "string"
            /\ renderer.bound = alias

\* a field matching a special function whose alias the meta declares a number:
\* the special function is returned, not the number formatter
C1_Witness ==
  /\ pc = "resolved"
  /\ field = F_user_misery_call
  /\ MetaGet(meta, F_user_misery_300) = "number"
  /\ renderer.kind = "SPECIAL_FUNCTIONS"

\* C2: for a field that is a key of the special-field registry getSortField
\* returns that entry's sort key whatever tableMeta is; 'issue' gives null for
\* every meta and 'id' with no meta gives 'id'.
C2_SpecialSortField ==
  (pc = "sorted" /\ field \in SpecialFieldKeys) =>
    /\ \E i \in 1..Len(SPECIAL_FIELDS) :
         SPECIAL_FIELDS[i].key = field /\ sortField = SPECIAL_FIELDS[i].sortField
    /\ field = F_issue => sortField = Null
    /\ (field = F_id /\ ~meta.defined) => sortField = Str(F_id)
    /\ field = F_user => sortField = Str(F_user_id)

\* 'issue' with a meta that declares it a string, a sortable type: still null
C2_Witness ==
  /\ pc = "sorted"
  /\ field = F_issue
  /\ meta.defined
  /\ MetaGet(meta, F_issue) = "string"
  /\ sortField = Null

\* C3 as stated: for a field that is no special field and starts with the alias
\* of a known aggregate, getSortField returns the field if that aggregate is
\* sortable and null otherwise, whether tableMeta is supplied or not.
C3_AggregateRuleBeforeNoMeta ==
  (pc = "sorted" /\ field \notin SpecialFieldKeys /\ AggregatePrefixed(field)) =>
    sortField = (IF AggregateSortable(field) THEN Str(field) ELSE Null)

\* C3 as amended: for such a field, when tableMeta is supplied getSortField
\* returns the field if the aggregate is sortable and null otherwise, whatever
\* type the meta declares; when no tableMeta is supplied it returns the field
\* unchanged, sortable aggregate or not.
C3_AggregateRuleWithMeta ==
  (pc = "sorted" /\ field \notin SpecialFieldKeys /\ AggregatePrefixed(field)) =>
    IF meta.defined
    THEN sortField = (IF AggregateSortable(field) THEN Str(field) ELSE Null)
    ELSE sortField = Str(field)

\* an unsortable aggregate whose meta declares a sortable type: null
C3_Witness ==
  /\ pc = "sorted"
  /\ field = F_user_misery_300
  /\ meta.defined
  /\ MetaGet(meta, F_user_misery_300) = "number"
  /\ sortField = Null

\* C4: for a field that is neither special nor aggregate-prefixed, with a
\* tableMeta getSortField returns the field when the declared type is one of
\* the seven formatter types and that formatter is sortable, and null otherwise
\* (type missing or unknown); with no tableMeta it returns the field.  For no
\* field outside the special fields is the result a string other than the field.
C4_TypeSortField ==
  /\ (pc = "sorted" /\ field \notin SpecialFieldKeys /\ ~AggregatePrefixed(field)) =>
       IF meta.defined
       THEN sortField =
              (IF /\ MetaGet(meta, field) \in SevenFormatterTypes
                  /\ \E i \in 1..Len(FIELD_FORMATTERS) :
                       /\ FIELD_FORMATTERS[i].type = MetaGet(meta, field)
                       /\ FIELD_FORMATTERS[i].isSortable
               THEN Str(field) ELSE Null)
       ELSE sortField = Str(field)
  /\ (pc = "sorted" /\ field \notin SpecialFieldKeys) =>
       sortField \in {Null, Str(field)}

\* a plain field whose meta declares a type outside the seven: null
C4_Witness ==
  /\ pc = "sorted"
  /\ field = F_title
  /\ meta.defined
  /\ MetaGet(meta, F_title) = "array"
  /\ sortField = Null

\* C5: when every 'user_misery' field of the row holds a number and the row
\* holds a numeric unique-user count (0 included), the renderer shows a score
\* bar whose score is floor((misery / max(uniqueUsers, 1)) * 10) and whose
\* tooltip duration is 4 times the integer parsed from the suffix after the
\* last '_' of the field name, misery value and suffix taken from one and the
\* same matched field; {count_unique_user: 100, user_misery_300: 10} gives
\* score 1 and duration 1200, and a count of 0 divides by 1.
C5_MiseryScore ==
  (/\ pc = "rendered"
   /\ renderer.kind = "SPECIAL_FUNCTIONS"
   /\ MiseryEntries(row) # {}
   /\ \A i \in MiseryEntries(row) : row[i].value.t = "number"
   /\ RowGet(row, F_count_unique_user).t = "number") =>
    LET users == RowGet(row, F_count_unique_user).n
        divisor == IF users > 1 THEN users ELSE 1
    IN /\ output.container = "BarContainer"
       /\ output.el = "ScoreBar"
       /\ \E i \in MiseryEntries(row) :
            /\ output.value = Num((row[i].value.n * 10) \div divisor)
            /\ output.tooltip.duration =
                 Times(Num(4), ParseInt(LastUnderscorePart(row[i].name)))
       /\ (row = << [name |-> F_count_unique_user, value |-> Num(100)],
                    [name |-> F_user_misery_300, value |-> Num(10)] >>) =>
            (output.value = Num(1) /\ output.tooltip.duration = Num(1200))
       /\ users = 0 =>
            \E i \in MiseryEntries(row) : output.value = Num(row[i].value.n * 10)

\* the row of the example, rendered as a score bar of score 1
C5_Witness ==
  /\ pc = "rendered"
  /\ renderer.kind = "SPECIAL_FUNCTIONS"
  /\ row = << [name |-> F_count_unique_user, value |-> Num(100)],
              [name |-> F_user_misery_300, value |-> Num(10)] >>
  /\ output.el = "ScoreBar"
  /\ output.value = Num(1)
  /\ output.tooltip.duration = Num(1200)

\* C6: the duration, integer, number and percentage formatters render the
\* empty-value placeholder in the numeric container when the row's value for
\* the field is absent, null, a string or an array, and render the formatted
\* number (Duration, Count, formatFloat, formatPercentage of that value) only
\* when it is a number.
C6_NumericPlaceholder ==
  (/\ pc = "rendered"
   /\ renderer.kind = "FIELD_FORMATTERS"
   /\ renderer.type \in {"duration", "integer", "number", "percentage"}) =>
    LET v == RowGet(row, renderer.bound)
    IN /\ output.container = "NumberContainer"
       /\ v.t \in {"undefined", "null", "string", "array"} =>
            output.el = "emptyValue"
       /\ output.el # "emptyValue" => v.t \in {"number", "nan"}
       /\ v.t = "number" =>
            /\ output.value = v
            /\ output.el = (CASE renderer.type = "duration" -> "Duration"
                              [] renderer.type = "integer" -> "Count"
                              [] renderer.type = "number" -> "formatFloat"
                              [] OTHER -> "formatPercentage")

\* the integer formatter given a non-empty string: the placeholder
C6_Witness ==
  /\ pc = "rendered"
  /\ renderer.kind = "FIELD_FORMATTERS"
  /\ renderer.type = "integer"
  /\ RowGet(row, renderer.bound) = Str(S_abc)
  /\ output.container = "NumberContainer"
  /\ output.el = "emptyValue"

\* C7: the string formatter shows, for a sequence, only its last element
\* (nothing for an empty sequence) and, for any other value, the raw value.
C7_StringTail ==
  (/\ pc = "rendered"
   /\ renderer.kind = "FIELD_FORMATTERS"
   /\ renderer.type = "string") =>
    LET v == RowGet(row, renderer.bound)
    IN /\ output.container = "Container"
       /\ output.el = "children"
       /\ IF v.t = "array"
          THEN ReactNodes(output.value) =
                 (IF Len(v.a) = 0 THEN <<>> ELSE <<v.a[Len(v.a)]>>)
          ELSE output.value = v

\* ["a", "b", "c"] shown as "c"
C7_Witness ==
  /\ pc = "rendered"
  /\ renderer.kind = "FIELD_FORMATTERS"
  /\ renderer.type = "string"
  /\ RowGet(row, renderer.bound) = Arr(<<Str(S_a), Str(S_b), Str(S_c)>>)
  /\ ReactNodes(output.value) = <<Str(S_c)>>

\* C8: the button shows the active thread as long as nothing has been
\* selected and the most recently selected thread afterwards; the threads
\* onChange has been called with are exactly the threads selected, once each
\* and in order, each one of the supplied threads; without an onChange nothing
\* is called.
C8_SelectionDisplay ==
  /\ SelectedOption(selectedItem, activeThread) =
       (IF chosen = <<>>
        THEN [id |-> activeThread.id, details |-> filterThreadInfo(activeThread)]
        ELSE [id |-> chosen[Len(chosen)].id,
              details |-> filterThreadInfo(chosen[Len(chosen)])])
  /\ onChangeCalls = (IF hasOnChange THEN chosen ELSE <<>>)
  /\ \A i \in 1..Len(chosen) : \E j \in 1..Len(threads) : chosen[i] = threads[j]

\* two different threads selected in turn, neither the active one
C8_Witness ==
  /\ Len(chosen) = 2
  /\ chosen[1] # chosen[2]
  /\ chosen[2] # activeThread
  /\ hasOnChange
  /\ onChangeCalls = chosen
  /\ SelectedOption(selectedItem, activeThread).id = chosen[2].id

\* C9: on the score-bar path the misery value and the misery limit both come
\* from the first field of the row, in the row's order, whose name starts with
\* 'user_misery'.
C9_FirstMiseryField ==
  (/\ pc = "rendered"
   /\ renderer.kind = "SPECIAL_FUNCTIONS"
   /\ output.el = "ScoreBar") =>
    LET first == CHOOSE i \in MiseryEntries(row) :
                   \A j \in MiseryEntries(row) : i <= j
    IN /\ output.tooltip.affectedUsers = row[first].value
       /\ output.tooltip.duration =
            Times(Num(4), ParseInt(LastUnderscorePart(row[first].name)))

\* C10: with no 'user_misery' field the renderer shows the placeholder in the
\* numeric container whatever else the row holds; with such a field and no
\* unique-user count (missing, undefined or null) it shows, in the numeric
\* container, a matched misery value as a 4-decimal float, or the placeholder
\* when that value is no number; the score bar is shown only when the row
\* holds both a 'user_misery' field and a unique-user count.
C10_MiseryFallback ==
  (pc = "rendered" /\ renderer.kind = "SPECIAL_FUNCTIONS") =>
    LET users == RowGet(row, F_count_unique_user)
    IN /\ MiseryEntries(row) = {} => output = EmptyValueIn("NumberContainer")
       /\ (MiseryEntries(row) # {} /\ users.t \in {"undefined", "null"}) =>
            /\ output.container = "NumberContainer"
            /\ \E i \in MiseryEntries(row) :
                 IF row[i].value.t \in {"number", "nan"}
                 THEN /\ output.el = "formatFloat"
                      /\ output.value = row[i].value
                      /\ output.arg = 4
                 ELSE output.el = "emptyValue"
       /\ output.el = "ScoreBar" =>
            /\ MiseryEntries(row) # {}
            /\ users.t \notin {"undefined", "null"}

\* a misery field of 10 and no unique-user count: the float 10
C10_Witness ==
  /\ pc = "rendered"
  /\ renderer.kind = "SPECIAL_FUNCTIONS"
  /\ row = << [name |-> F_user_misery_300, value |-> Num(10)] >>
  /\ output.container = "NumberContainer"
  /\ output.el = "formatFloat"
  /\ output.value = Num(10)

====
